---- MODULE Spec2Model ----
(***************************************************************************)
(* Model of the document-ingestion service of private_gpt:                 *)
(*   - SafeSemanticSplitter._parse_nodes (chunker with fixed-size fallback)*)
(*   - IngestService (ingest_file, ingest_text, ingest_bin_data,           *)
(*     bulk_ingest, list_ingested, delete, get_doc_ids_by_filename)        *)
(*   - the POST /v1/ingest route                                           *)
(***************************************************************************)
EXTENDS Integers, Sequences, FiniteSets, TLC

\* ---------------------------------------------------------------------------
\* Program constants
\* ---------------------------------------------------------------------------
DEFAULT_CHUNK_SIZE == 384
SENTENCE_CHUNK_OVERLAP == 50

\* ---------------------------------------------------------------------------
\* Bounds of the model
\* ---------------------------------------------------------------------------
MaxBatch == 2
MaxSentences == 2
MaxDocIds == 3
MaxTmpNames == 1
MaxBulkFiles == 2
MaxSubIds == 3
MaxRequests == 2

\* token counts a sentence of an input document can have
SentenceTokens == {50, 200}

VARIABLES
    nodes,          \* chunker: the input batch handed to _parse_nodes
    all_nodes,      \* chunker: the list _parse_nodes returned
    chunk_pc,       \* chunker: "input" before the call, "done" after it
    storage_context,\* IngestService.storage_context: docstore, index store, vector store
    next_id,        \* the next fresh document id
    tmp_files,      \* temporary files on disk: name -> content
    pc,             \* position of the in-flight _ingest_data call, "idle" if none
    call,           \* the in-flight _ingest_data call
    ret,            \* outcome of the last call, none while a call is in flight
    deleted,        \* history: the doc ids delete() has returned successfully for
    subscriptions,  \* the rows of the subscription table
    sub_next_id,    \* the next primary key of the subscription table
    response,       \* the response to the last finished subscription request
    req             \* the concurrent create_subscription requests and their positions

chunk_vars == <<nodes, all_nodes, chunk_pc>>

service_vars ==
    <<storage_context, next_id, tmp_files, pc, call, ret, deleted>>

sub_vars == <<subscriptions, sub_next_id, response, req>>

vars == <<nodes, all_nodes, chunk_pc, storage_context, next_id, tmp_files, pc, call,
          ret, deleted, subscriptions, sub_next_id, response, req>>

\* ---------------------------------------------------------------------------
\* Chunker
\* ---------------------------------------------------------------------------
RECURSIVE SumTokens(_, _, _)
SumTokens(toks, a, b) == IF a > b THEN 0 ELSE toks[a] + SumTokens(toks, a + 1, b)

\* a node built from the sentences first..last of document doc of the batch
MkNode(batch, doc, first, last, parser) ==
    [kind |-> batch[doc].kind, doc |-> doc, first |-> first, last |-> last,
     tokens |-> SumTokens(batch[doc].toks, first, last), parser |-> parser]

\* SemanticSplitterNodeParser: the sentences of a document are grouped into
\* chunks that end at the similarity breakpoints (batch[d].brks)
RECURSIVE SemanticChunks(_, _, _, _)
SemanticChunks(batch, d, first, i) ==
    IF i > Len(batch[d].toks) THEN << >>
    ELSE IF i = Len(batch[d].toks) \/ i \in batch[d].brks
         THEN <<MkNode(batch, d, first, i, "semantic")>>
              \o SemanticChunks(batch, d, i + 1, i + 1)
         ELSE SemanticChunks(batch, d, first, i + 1)

SemanticDoc(batch, d) == SemanticChunks(batch, d, 1, 1)

RECURSIVE SemanticFrom(_, _)
SemanticFrom(batch, d) ==
    IF d > Len(batch) THEN << >> ELSE SemanticDoc(batch, d) \o SemanticFrom(batch, d + 1)

SemanticSplit(batch) == SemanticFrom(batch, 1)

\* SentenceSplitter._merge with chunk_size / chunk_overlap: sentences are
\* packed greedily, a closed chunk seeds the next one with its trailing
\* sentences that fit into the overlap
OverlapFirst(toks, first, i) ==
    LET fits == {j \in first..i : SumTokens(toks, j, i - 1) <= SENTENCE_CHUNK_OVERLAP}
    IN  CHOOSE j \in fits : \A k \in fits : j <= k

RECURSIVE Merge(_, _, _, _, _, _)
Merge(batch, d, i, first, cur_len, new_chunk) ==
    LET toks == batch[d].toks IN
    IF i > Len(toks)
    THEN IF new_chunk THEN << >> ELSE <<MkNode(batch, d, first, i - 1, "sentence")>>
    ELSE IF cur_len + toks[i] > DEFAULT_CHUNK_SIZE /\ ~new_chunk
         THEN LET ov == OverlapFirst(toks, first, i)
              IN  <<MkNode(batch, d, first, i - 1, "sentence")>>
                  \o Merge(batch, d, i, ov, SumTokens(toks, ov, i - 1), TRUE)
         ELSE Merge(batch, d, i + 1, first, cur_len + toks[i], FALSE)

SentenceDoc(batch, d) == Merge(batch, d, 1, 1, 0, TRUE)

RECURSIVE SentenceFrom(_, _)
SentenceFrom(batch, d) ==
    IF d > Len(batch) THEN << >> ELSE SentenceDoc(batch, d) \o SentenceFrom(batch, d + 1)

SentenceSplit(batch) == SentenceFrom(batch, 1)

\* safety_chunker._token_size(node.text) > safety_chunker.chunk_size
TooBig(node) == node.kind = "TEXT" /\ node.tokens > DEFAULT_CHUNK_SIZE

\* the for loop of _parse_nodes: it iterates the list bound at loop entry;
\* the "if not all_good" statement is in the loop body, after the statement
\* that breaks out of the loop when all_good is cleared
\* variant: the negation of "if not all_good" is dropped
RECURSIVE ParseLoop_NegationDropped(_, _, _, _, _)
ParseLoop_NegationDropped(batch, iter, k, all_good, result) ==
    IF k > Len(iter) THEN result
    ELSE IF TooBig(iter[k])
         THEN result
         ELSE IF all_good
              THEN ParseLoop_NegationDropped(batch, iter, k + 1, all_good,
                                             SentenceSplit(batch))
              ELSE ParseLoop_NegationDropped(batch, iter, k + 1, all_good, result)

RECURSIVE ParseLoop(_, _, _, _, _)
ParseLoop(batch, iter, k, all_good, result) ==
    IF k > Len(iter) THEN result
    ELSE IF TooBig(iter[k])
         THEN result                                  \* all_good = False; break
         ELSE IF ~all_good
              THEN ParseLoop(batch, iter, k + 1, all_good, SentenceSplit(batch))
              ELSE ParseLoop(batch, iter, k + 1, all_good, result)

SafeParseNodes(batch) ==
    LET semantic == SemanticSplit(batch)
    IN  ParseLoop(batch, semantic, 1, TRUE, semantic)

\* ---------------------------------------------------------------------------
\* Values
\* ---------------------------------------------------------------------------
FileNames == {"a.txt", "b.txt"}

\* What a file holds: the number of chunks of each document a reader makes of
\* it (parts), or content the reader cannot decode
File(decodable, parts) == [decodable |-> decodable, parts |-> parts]

Contents == {File(TRUE, <<1>>), File(TRUE, <<1, 2>>), File(FALSE, << >>)}

EmptyFile == File(TRUE, << >>)

\* the files ingest_file and bulk_ingest are given by path
PathContent ==
    [pA |-> File(TRUE, <<1>>), pB |-> File(TRUE, <<1, 2>>), pBad |-> File(FALSE, << >>)]

\* an uploaded binary stream: reading it gives its data or fails
Streams ==
    {[readable |-> TRUE, data |-> c] : c \in Contents}
        \cup {[readable |-> FALSE, data |-> EmptyFile]}

Paths == DOMAIN PathContent

TmpNames == 1..MaxTmpNames

DocIds == 1..MaxDocIds

NoExc == "none"

INTERNAL_KEYS == {"doc_id", "window", "original_text"}

\* every public method of IngestService
IngestServiceMethods ==
    {"ingest_file", "ingest_text", "ingest_bin_data", "bulk_ingest",
     "list_ingested", "delete", "get_doc_ids_by_filename"}

\* ---------------------------------------------------------------------------
\* Metadata curator and IngestedDoc
\* ---------------------------------------------------------------------------
curate_metadata(metadata) ==
    [k \in (DOMAIN metadata) \ INTERNAL_KEYS |-> metadata[k]]

IngestedDoc(doc_id, doc_metadata) ==
    [object |-> "ingest.document", doc_id |-> doc_id, doc_metadata |-> doc_metadata]

from_document(document) ==
    IngestedDoc(document.doc_id, curate_metadata(document.metadata))

\* [IngestedDoc.from_document(document) for document in documents]
IngestedDocs(documents) ==
    [i \in 1..Len(documents) |-> from_document(documents[i])]

\* ---------------------------------------------------------------------------
\* Storage Context
\* ---------------------------------------------------------------------------
EmptyStorage ==
    [docs |-> << >>, ref_doc_info |-> << >>, index_store |-> {}, vector_store |-> {},
     persisted |-> TRUE]

NodeIdsOf(sc, doc_id) ==
    {sc.docs[k].node_id : k \in {j \in 1..Len(sc.docs) : sc.docs[j].ref_doc_id = doc_id}}

\* docstore.get_all_ref_doc_info(): one entry per document with an indexed node
get_all_ref_doc_info(sc) ==
    LET HasNode(info) == NodeIdsOf(sc, info.doc_id) # {}
    IN  SelectSeq(sc.ref_doc_info, HasNode)

RefDocIds(sc) ==
    {get_all_ref_doc_info(sc)[k].doc_id : k \in 1..Len(get_all_ref_doc_info(sc))}

persist(sc) == [sc EXCEPT !.persisted = TRUE]

\* ---------------------------------------------------------------------------
\* Ingestion Component
\* ---------------------------------------------------------------------------
\* the reader: one Document per part of the content, each with a fresh id
\* attached to its metadata
ReadDocuments(nid, file_name, content) ==
    [i \in 1..Len(content.parts) |->
        [doc_id |-> nid + i - 1,
         metadata |-> [file_name |-> file_name, doc_id |-> nid + i - 1],
         chunks |-> content.parts[i], embedding |-> FALSE]]

\* transformations[0]: the node parser; node ids are unique and differ from
\* every document id
ChunkDocument(document) ==
    [j \in 1..document.chunks |->
        [node_id |-> 10 * document.doc_id + j, ref_doc_id |-> document.doc_id,
         metadata |-> document.metadata, embedding |-> FALSE]]

\* transformations[1]: the embedding model
EmbedNode(node) == [node EXCEPT !.embedding = TRUE]

\* variant: the embedding model is listed before the node parser
transformations_EmbeddingFirst == <<"embedding_model", "node_parser">>

\* the transformations handed to the Ingestion Component, in order
transformations == <<"node_parser", "embedding_model">>

\* one transformation applied to a list of documents or nodes: the node parser
\* replaces each document by its nodes, the embedding model embeds each item
RECURSIVE ChunkAll(_)
ChunkAll(items) ==
    IF items = << >> THEN << >>
    ELSE (IF "chunks" \in DOMAIN Head(items) THEN ChunkDocument(Head(items))
          ELSE <<Head(items)>>) \o ChunkAll(Tail(items))

ApplyTransformation(t, items) ==
    IF t = "node_parser" THEN ChunkAll(items)
    ELSE [j \in 1..Len(items) |-> EmbedNode(items[j])]

RECURSIVE RunPipeline(_, _)
RunPipeline(ts, items) ==
    IF ts = << >> THEN items
    ELSE RunPipeline(Tail(ts), ApplyTransformation(Head(ts), items))

RunTransformations(document) == RunPipeline(transformations, <<document>>)

InsertDocument(sc, document) ==
    LET new_nodes == RunTransformations(document)
        ids == {new_nodes[j].node_id : j \in 1..Len(new_nodes)}
    IN  [docs |-> sc.docs \o new_nodes,
         ref_doc_info |-> Append(sc.ref_doc_info,
                                 [doc_id |-> document.doc_id, metadata |-> document.metadata]),
         index_store |-> sc.index_store \cup ids,
         vector_store |-> sc.vector_store \cup ids,
         persisted |-> FALSE]

RECURSIVE SaveDocs(_, _)
SaveDocs(sc, documents) ==
    IF documents = << >> THEN sc
    ELSE SaveDocs(InsertDocument(sc, Head(documents)), Tail(documents))

Raised(exc, sc, nid) ==
    [status |-> "raise", exc |-> exc, documents |-> << >>, sc |-> sc, next_id |-> nid]

Returned(documents, sc, nid) ==
    [status |-> "ok", exc |-> NoExc, documents |-> documents, sc |-> sc, next_id |-> nid]

\* ingest_component.ingest(file_name, file_data)
component_ingest(sc, nid, file_name, content) ==
    IF ~content.decodable THEN Raised("DecodeError", sc, nid)
    ELSE LET documents == ReadDocuments(nid, file_name, content)
         IN  Returned(documents, persist(SaveDocs(sc, documents)),
                      nid + Len(content.parts))

\* ingest_component.bulk_ingest(files): the files in order, one persist at the end
RECURSIVE BulkLoop(_, _, _, _)
BulkLoop(sc, nid, files, saved) ==
    IF files = << >> THEN Returned(saved, persist(sc), nid)
    ELSE LET file_name == Head(files)[1]
             content == Head(files)[2]
         IN  IF ~content.decodable THEN Raised("DecodeError", sc, nid)
             ELSE LET documents == ReadDocuments(nid, file_name, content)
                  IN  BulkLoop(SaveDocs(sc, documents), nid + Len(content.parts),
                               Tail(files), saved \o documents)

component_bulk_ingest(sc, nid, files) == BulkLoop(sc, nid, files, << >>)

\* ingest_component.delete(doc_id)
component_delete(sc, nid, doc_id) ==
    IF \A k \in 1..Len(sc.ref_doc_info) : sc.ref_doc_info[k].doc_id # doc_id
    THEN Raised("NotFoundError", sc, nid)
    ELSE LET gone == NodeIdsOf(sc, doc_id)
             KeepNode(node) == node.ref_doc_id # doc_id
             KeepInfo(info) == info.doc_id # doc_id
         IN  Returned(<< >>,
                      persist([docs |-> SelectSeq(sc.docs, KeepNode),
                               ref_doc_info |-> SelectSeq(sc.ref_doc_info, KeepInfo),
                               index_store |-> sc.index_store \ gone,
                               vector_store |-> sc.vector_store \ gone,
                               persisted |-> FALSE]),
                      nid)

\* ---------------------------------------------------------------------------
\* Subscriptions: the table, crud.subscription and the routes
\* ---------------------------------------------------------------------------
Companies == {1, 2}

Plans == {"basic", "pro"}

SubIds == 1..MaxSubIds

Requests == 1..MaxRequests

\* schemas.SubscriptionCreate
CreateInputs ==
    {[company_id |-> c, plan |-> p, is_active |-> a] :
        c \in Companies, p \in Plans, a \in BOOLEAN}

\* schemas.SubscriptionUpdate
UpdateInputs == {[plan |-> p, is_active |-> a] : p \in Plans, a \in BOOLEAN}

\* crud.subscription.get_by_company_id
get_by_company_id(db, company_id) == {row \in db : row.company_id = company_id}

\* crud.subscription.get_by_id: the set with the row, empty for None
get_by_id(db, subscription_id) == {row \in db : row.id = subscription_id}

\* crud.subscription.create
crud_create(db, new_id, obj_in) ==
    db \cup {[id |-> new_id, company_id |-> obj_in.company_id, plan |-> obj_in.plan,
              is_active |-> obj_in.is_active]}

\* crud.subscription.update
crud_update(db, db_obj, obj_in) ==
    (db \ {db_obj})
        \cup {[db_obj EXCEPT !.plan = obj_in.plan, !.is_active = obj_in.is_active]}

\* crud.subscription.remove
crud_remove(db, subscription_id) == db \ get_by_id(db, subscription_id)

HTTP_200_OK == 200
HTTP_201_CREATED == 201
HTTP_400_BAD_REQUEST == 400
HTTP_403_FORBIDDEN == 403
HTTP_404_NOT_FOUND == 404

Response(status, db, new_id) == [status |-> status, db |-> db, next_id |-> new_id]

\* variant: the existence check is left out
create_subscription_NoCheck(db, new_id, subscription_in) ==
    Response(HTTP_201_CREATED, crud_create(db, new_id, subscription_in), new_id + 1)

create_subscription(db, new_id, subscription_in) ==
    LET existing_subscription == get_by_company_id(db, subscription_in.company_id)
    IN  IF existing_subscription # {}
        THEN Response(HTTP_400_BAD_REQUEST, db, new_id)
        ELSE Response(HTTP_201_CREATED, crud_create(db, new_id, subscription_in),
                      new_id + 1)

\* variant: the is_active test is left out
update_subscription_NoActiveCheck(db, new_id, subscription_id, subscription_in) ==
    LET subscription == get_by_id(db, subscription_id)
    IN  IF subscription = {} THEN Response(HTTP_404_NOT_FOUND, db, new_id)
        ELSE Response(HTTP_200_OK,
                      crud_update(db, CHOOSE row \in subscription : TRUE, subscription_in),
                      new_id)

update_subscription(db, new_id, subscription_id, subscription_in) ==
    LET subscription == get_by_id(db, subscription_id)
    IN  IF subscription = {} THEN Response(HTTP_404_NOT_FOUND, db, new_id)
        ELSE LET row == CHOOSE r \in subscription : TRUE
             IN  IF ~row.is_active THEN Response(HTTP_403_FORBIDDEN, db, new_id)
                 ELSE Response(HTTP_200_OK, crud_update(db, row, subscription_in), new_id)

delete_subscription(db, new_id, subscription_id) ==
    IF get_by_id(db, subscription_id) = {} THEN Response(HTTP_404_NOT_FOUND, db, new_id)
    ELSE Response(HTTP_200_OK, crud_remove(db, subscription_id), new_id)

NoResponse == [route |-> "none", status |-> 0, subscription_id |-> 0, company_id |-> 0]

IdleRequest ==
    [pc |-> "idle", status |-> 0,
     subscription_in |-> [company_id |-> 0, plan |-> "", is_active |-> FALSE]]

SubInit ==
    /\ subscriptions = {}
    /\ sub_next_id = 1
    /\ response = NoResponse
    /\ req = [r \in Requests |-> IdleRequest]

\* ---------------------------------------------------------------------------
\* Ingest Service: what each method does to the stores and what it returns
\* ---------------------------------------------------------------------------
\* a result of a service call: value is the returned list, ids the returned set
Result(status, exc, value, ids, sc, nid) ==
    [status |-> status, exc |-> exc, value |-> value, ids |-> ids, sc |-> sc,
     next_id |-> nid]

\* variant: an error of the component is caught and an empty list returned
ingest_file_Swallows(sc, nid, file_name, content) ==
    LET r == component_ingest(sc, nid, file_name, content)
    IN  IF r.status = "raise" THEN Result("ok", NoExc, << >>, {}, r.sc, r.next_id)
        ELSE Result("ok", NoExc, IngestedDocs(r.documents), {}, r.sc, r.next_id)

ingest_file(sc, nid, file_name, content) ==
    LET r == component_ingest(sc, nid, file_name, content)
    IN  IF r.status = "raise" THEN Result("raise", r.exc, << >>, {}, r.sc, r.next_id)
        ELSE Result("ok", NoExc, IngestedDocs(r.documents), {}, r.sc, r.next_id)

\* variant: only the first file of the list is handed to the component
bulk_ingest_FirstFileOnly(sc, nid, files) ==
    LET r == component_bulk_ingest(sc, nid, <<Head(files)>>)
    IN  IF r.status = "raise" THEN Result("raise", r.exc, << >>, {}, r.sc, r.next_id)
        ELSE Result("ok", NoExc, IngestedDocs(r.documents), {}, r.sc, r.next_id)

bulk_ingest(sc, nid, files) ==
    LET r == component_bulk_ingest(sc, nid, files)
    IN  IF r.status = "raise" THEN Result("raise", r.exc, << >>, {}, r.sc, r.next_id)
        ELSE Result("ok", NoExc, IngestedDocs(r.documents), {}, r.sc, r.next_id)

\* variant: the error of the component is swallowed
delete_Swallows(sc, nid, doc_id) ==
    LET r == component_delete(sc, nid, doc_id)
    IN  Result("ok", NoExc, << >>, {}, r.sc, r.next_id)

\* variant: the call is logged but not delegated to the component
delete_NotDelegated(sc, nid, doc_id) ==
    Result("ok", NoExc, << >>, {}, sc, nid)

delete(sc, nid, doc_id) ==
    LET r == component_delete(sc, nid, doc_id)
    IN  Result(r.status, r.exc, << >>, {}, r.sc, r.next_id)

\* list_ingested: fault = 0 makes get_all_ref_doc_info raise ValueError,
\* fault = k makes the k-th round of the loop raise it, fault = -1 is no error
RECURSIVE ListLoop(_, _, _, _)
ListLoop(ref_docs, k, fault, ingested_docs) ==
    IF k > Len(ref_docs) THEN ingested_docs
    ELSE IF fault = k THEN ingested_docs                   \* except ValueError: pass
         ELSE ListLoop(ref_docs, k + 1, fault,
                       Append(ingested_docs,
                              IngestedDoc(ref_docs[k].doc_id,
                                          curate_metadata(ref_docs[k].metadata))))

\* variant: no except clause, the ValueError reaches the caller
list_ingested_NoExcept(sc, nid, fault) ==
    LET ref_docs == get_all_ref_doc_info(sc)
    IN  IF fault >= 0 /\ (fault = 0 \/ ref_docs # << >>)
        THEN Result("raise", "ValueError", << >>, {}, sc, nid)
        ELSE Result("ok", NoExc, ListLoop(ref_docs, 1, fault, << >>), {}, sc, nid)

\* variant: the entry is appended after the loop, so only the last one is listed
list_ingested_LastOnly(sc, nid, fault) ==
    LET ref_docs == get_all_ref_doc_info(sc)
        all == ListLoop(ref_docs, 1, fault, << >>)
    IN  IF fault = 0 \/ all = << >> THEN Result("ok", NoExc, << >>, {}, sc, nid)
        ELSE Result("ok", NoExc, <<all[Len(all)]>>, {}, sc, nid)

list_ingested(sc, nid, fault) ==
    LET ref_docs == get_all_ref_doc_info(sc)
    IN  IF fault = 0 THEN Result("ok", NoExc, << >>, {}, sc, nid)
        ELSE IF ref_docs = << >> THEN Result("ok", NoExc, << >>, {}, sc, nid)
             ELSE Result("ok", NoExc, ListLoop(ref_docs, 1, fault, << >>), {}, sc, nid)

\* get_doc_ids_by_filename: fault = 0 makes the access to docstore.docs raise
\* ValueError, fault = k makes the k-th node of the iteration raise it
RECURSIVE ScanLoop(_, _, _, _, _)
ScanLoop(docs, k, fault, filename, doc_ids) ==
    IF k > Len(docs) THEN doc_ids
    ELSE IF fault = k THEN doc_ids                         \* except ValueError: pass
         ELSE IF "file_name" \in DOMAIN docs[k].metadata
                 /\ docs[k].metadata["file_name"] = filename
              THEN ScanLoop(docs, k + 1, fault, filename, doc_ids \cup {docs[k].ref_doc_id})
              ELSE ScanLoop(docs, k + 1, fault, filename, doc_ids)

\* variant: doc_ids.add(node.node_id)
RECURSIVE ScanLoopNodeId(_, _, _, _, _)
ScanLoopNodeId(docs, k, fault, filename, doc_ids) ==
    IF k > Len(docs) THEN doc_ids
    ELSE IF fault = k THEN doc_ids
         ELSE IF "file_name" \in DOMAIN docs[k].metadata
                 /\ docs[k].metadata["file_name"] = filename
              THEN ScanLoopNodeId(docs, k + 1, fault, filename,
                                  doc_ids \cup {docs[k].node_id})
              ELSE ScanLoopNodeId(docs, k + 1, fault, filename, doc_ids)

get_doc_ids_by_filename_NodeId(sc, nid, filename, fault) ==
    IF fault = 0 THEN Result("ok", NoExc, << >>, {}, sc, nid)
    ELSE Result("ok", NoExc, << >>, ScanLoopNodeId(sc.docs, 1, fault, filename, {}), sc, nid)

\* variant: the file_name comparison is dropped
get_doc_ids_by_filename_NoFilter(sc, nid, filename, fault) ==
    IF fault = 0 THEN Result("ok", NoExc, << >>, {}, sc, nid)
    ELSE Result("ok", NoExc, << >>,
                {sc.docs[k].ref_doc_id :
                    k \in {j \in 1..Len(sc.docs) : fault = -1 \/ j < fault}},
                sc, nid)

\* variant: the except clause resets doc_ids
get_doc_ids_by_filename_ClearsOnError(sc, nid, filename, fault) ==
    IF fault >= 0 /\ fault <= Len(sc.docs) THEN Result("ok", NoExc, << >>, {}, sc, nid)
    ELSE Result("ok", NoExc, << >>, ScanLoop(sc.docs, 1, fault, filename, {}), sc, nid)

get_doc_ids_by_filename(sc, nid, filename, fault) ==
    IF fault = 0 THEN Result("ok", NoExc, << >>, {}, sc, nid)
    ELSE Result("ok", NoExc, << >>, ScanLoop(sc.docs, 1, fault, filename, {}), sc, nid)

\* variant: the file is unlinked after the return statement only
FinallyCleanup_OnSuccessOnly(files, tmp, exc) ==
    IF exc = NoExc THEN [t \in (DOMAIN files) \ {tmp} |-> files[t]] ELSE files

\* the finally clause of _ingest_data: tmp.close(); path_to_tmp.unlink()
FinallyCleanup(files, tmp, exc) ==
    [t \in (DOMAIN files) \ {tmp} |-> files[t]]

\* input batches
TokSeqs == UNION {[1..n -> SentenceTokens] : n \in 1..MaxSentences}

InputDocs ==
    {[kind |-> k, toks |-> t, brks |-> b] :
        k \in {"TEXT", "IMAGE"}, t \in TokSeqs, b \in SUBSET (1..(MaxSentences - 1))}

ValidDoc(doc) == \A p \in doc.brks : p < Len(doc.toks)

ValidDocs == {doc \in InputDocs : ValidDoc(doc)}

Batches == UNION {[1..n -> ValidDocs] : n \in 1..MaxBatch}

\* ---------------------------------------------------------------------------
\* Initial state
\* ---------------------------------------------------------------------------
NoCall ==
    [op |-> "none", file_name |-> "", file_data |-> EmptyFile, tmp |-> 0,
     exc |-> NoExc, value |-> << >>]

Outcome(op, r, file_name, doc_id, fault, tmp) ==
    [op |-> op, status |-> r.status, exc |-> r.exc, value |-> r.value, ids |-> r.ids,
     file_name |-> file_name, doc_id |-> doc_id, fault |-> fault, tmp |-> tmp]

NoOutcome ==
    [op |-> "none", status |-> "ok", exc |-> NoExc, value |-> << >>, ids |-> {},
     file_name |-> "", doc_id |-> 0, fault |-> -1, tmp |-> 0]

ServiceInit ==
    /\ storage_context = EmptyStorage
    /\ next_id = 1
    /\ tmp_files = << >>
    /\ pc = "idle"
    /\ call = NoCall
    /\ ret = NoOutcome
    /\ deleted = {}

Init ==
    /\ ServiceInit
    /\ SubInit
    /\ nodes = << >>
    /\ all_nodes = << >>
    /\ chunk_pc = "off"

ChunkInit ==
    /\ ServiceInit
    /\ SubInit
    /\ nodes \in Batches
    /\ all_nodes = << >>
    /\ chunk_pc = "input"

\* ---------------------------------------------------------------------------
\* Chunker action
\* ---------------------------------------------------------------------------
ParseNodes ==
    /\ chunk_pc = "input"
    /\ all_nodes' = SafeParseNodes(nodes)
    /\ chunk_pc' = "done"
    /\ UNCHANGED <<nodes, service_vars, sub_vars>>

\* ---------------------------------------------------------------------------
\* Service actions
\* ---------------------------------------------------------------------------
Fits(nid, n) == nid + n - 1 <= MaxDocIds

\* the document ids of the list a call returned
ReturnedIds(r) == {r.value[k].doc_id : k \in 1..Len(r.value)}

RECURSIVE CountDocs(_)
CountDocs(files) ==
    IF files = << >> THEN 0 ELSE Len(Head(files)[2].parts) + CountDocs(Tail(files))

\* the (file_name, path) lists given to bulk_ingest, each path by its content
BulkInputs ==
    UNION {[1..n -> {<<f, PathContent[p]>> : f \in FileNames, p \in Paths}] :
              n \in 1..MaxBulkFiles}

IngestFile(file_name, path) ==
    /\ pc = "idle"
    /\ Fits(next_id, Len(PathContent[path].parts))
    /\ LET r == ingest_file(storage_context, next_id, file_name, PathContent[path])
       IN  /\ storage_context' = r.sc
           /\ next_id' = r.next_id
           /\ ret' = Outcome("ingest_file", r, file_name, 0, -1, 0)
    /\ UNCHANGED <<tmp_files, pc, call, deleted, chunk_vars, sub_vars>>

BulkIngest(files) ==
    /\ pc = "idle"
    /\ Fits(next_id, CountDocs(files))
    /\ LET r == bulk_ingest(storage_context, next_id, files)
       IN  /\ storage_context' = r.sc
           /\ next_id' = r.next_id
           /\ ret' = Outcome("bulk_ingest", r, "", 0, -1, 0)
    /\ UNCHANGED <<tmp_files, pc, call, deleted, chunk_vars, sub_vars>>

\* _ingest_data up to the creation of the temporary file
IngestData(op, file_name, file_data) ==
    /\ pc = "idle"
    /\ Fits(next_id, Len(file_data.parts))
    /\ \E tmp \in TmpNames \ DOMAIN tmp_files :
          /\ tmp_files' = [t \in (DOMAIN tmp_files) \cup {tmp} |->
                              IF t = tmp THEN EmptyFile ELSE tmp_files[t]]
          /\ call' = [op |-> op, file_name |-> file_name, file_data |-> file_data,
                      tmp |-> tmp, exc |-> NoExc, value |-> << >>]
    /\ pc' = "write"
    /\ ret' = NoOutcome
    /\ UNCHANGED <<storage_context, next_id, deleted, chunk_vars, sub_vars>>

IngestText(file_name, text) == IngestData("ingest_text", file_name, text)

IngestBinData(file_name, raw_file_data) ==
    IF raw_file_data.readable
    THEN IngestData("ingest_bin_data", file_name, raw_file_data.data)
    ELSE /\ pc = "idle"
         /\ ret' = Outcome("ingest_bin_data",
                           Result("raise", "OSError", << >>, {}, storage_context, next_id),
                           file_name, 0, -1, 0)
         /\ UNCHANGED <<storage_context, next_id, tmp_files, pc, call, deleted, chunk_vars, sub_vars>>

\* path_to_tmp.write_bytes / write_text: succeeds or raises
IngestDataWrite ==
    /\ pc = "write"
    /\ \E written \in BOOLEAN :
          IF written
          THEN /\ tmp_files' = [tmp_files EXCEPT ![call.tmp] = call.file_data]
               /\ pc' = "ingest"
               /\ UNCHANGED call
          ELSE /\ call' = [call EXCEPT !.exc = "OSError"]
               /\ pc' = "finally"
               /\ UNCHANGED tmp_files
    /\ UNCHANGED <<storage_context, next_id, ret, deleted, chunk_vars, sub_vars>>

\* return self.ingest_file(file_name, path_to_tmp)
IngestDataIngestFile ==
    /\ pc = "ingest"
    /\ LET r == ingest_file(storage_context, next_id, call.file_name, tmp_files[call.tmp])
       IN  /\ storage_context' = r.sc
           /\ next_id' = r.next_id
           /\ call' = [call EXCEPT !.exc = r.exc, !.value = r.value]
    /\ pc' = "finally"
    /\ UNCHANGED <<tmp_files, ret, deleted, chunk_vars, sub_vars>>

\* the finally clause, then the return or the raise
IngestDataFinally ==
    /\ pc = "finally"
    /\ tmp_files' = FinallyCleanup(tmp_files, call.tmp, call.exc)
    /\ ret' = Outcome(call.op,
                      Result(IF call.exc = NoExc THEN "ok" ELSE "raise", call.exc,
                             call.value, {}, storage_context, next_id),
                      call.file_name, 0, -1, call.tmp)
    /\ pc' = "idle"
    /\ call' = NoCall
    /\ UNCHANGED <<storage_context, next_id, deleted, chunk_vars, sub_vars>>

ListIngested(fault) ==
    /\ pc = "idle"
    /\ ret' = Outcome("list_ingested", list_ingested(storage_context, next_id, fault),
                      "", 0, fault, 0)
    /\ UNCHANGED <<storage_context, next_id, tmp_files, pc, call, deleted, chunk_vars, sub_vars>>

Delete(doc_id) ==
    /\ pc = "idle"
    /\ LET r == delete(storage_context, next_id, doc_id)
       IN  /\ storage_context' = r.sc
           /\ ret' = Outcome("delete", r, "", doc_id, -1, 0)
           /\ deleted' = IF r.status = "ok" THEN deleted \cup {doc_id} ELSE deleted
    /\ UNCHANGED <<next_id, tmp_files, pc, call, chunk_vars, sub_vars>>

GetDocIdsByFilename(filename, fault) ==
    /\ pc = "idle"
    /\ ret' = Outcome("get_doc_ids_by_filename",
                      get_doc_ids_by_filename(storage_context, next_id, filename, fault),
                      filename, 0, fault, 0)
    /\ UNCHANGED <<storage_context, next_id, tmp_files, pc, call, deleted, chunk_vars, sub_vars>>

\* POST /v1/ingest: the route calls service.ingest_uploaded_file, which is not
\* a method of IngestService
PostIngest(filename, raw_file_data) ==
    /\ pc = "idle"
    /\ "ingest_uploaded_file" \notin IngestServiceMethods
    /\ ret' = Outcome("POST /v1/ingest",
                      Result("raise", "AttributeError", << >>, {}, storage_context, next_id),
                      filename, 0, -1, 0)
    /\ UNCHANGED <<storage_context, next_id, tmp_files, pc, call, deleted, chunk_vars, sub_vars>>

Next ==
    \/ \E f \in FileNames, p \in Paths : IngestFile(f, p)
    \/ \E files \in BulkInputs : BulkIngest(files)
    \/ \E f \in FileNames, text \in Contents : IngestText(f, text)
    \/ \E f \in FileNames, raw \in Streams : IngestBinData(f, raw)
    \/ IngestDataWrite
    \/ IngestDataIngestFile
    \/ IngestDataFinally
    \/ \E fault \in -1..Len(get_all_ref_doc_info(storage_context)) : ListIngested(fault)
    \/ \E d \in DocIds : Delete(d)
    \/ \E f \in FileNames, fault \in -1..Len(storage_context.docs) :
          GetDocIdsByFilename(f, fault)
    \/ \E f \in FileNames, raw \in Streams : PostIngest(f, raw)

Spec == Init /\ [][Next]_vars

ChunkNext == ParseNodes

SpecChunk == ChunkInit /\ [][ChunkNext]_vars

\* ---------------------------------------------------------------------------
\* Subscriptions: the requests
\* ---------------------------------------------------------------------------
\* requests handled one at a time
CreateSubscription(subscription_in) ==
    /\ sub_next_id <= MaxSubIds
    /\ LET r == create_subscription(subscriptions, sub_next_id, subscription_in)
       IN  /\ subscriptions' = r.db
           /\ sub_next_id' = r.next_id
           /\ response' = [route |-> "create", status |-> r.status, subscription_id |-> 0,
                           company_id |-> subscription_in.company_id]
    /\ UNCHANGED <<req, chunk_vars, service_vars>>

UpdateSubscription(subscription_id, subscription_in) ==
    /\ LET r == update_subscription(subscriptions, sub_next_id, subscription_id,
                                    subscription_in)
       IN  /\ subscriptions' = r.db
           /\ response' = [route |-> "update", status |-> r.status,
                           subscription_id |-> subscription_id, company_id |-> 0]
    /\ UNCHANGED <<sub_next_id, req, chunk_vars, service_vars>>

DeleteSubscription(subscription_id) ==
    /\ LET r == delete_subscription(subscriptions, sub_next_id, subscription_id)
       IN  /\ subscriptions' = r.db
           /\ response' = [route |-> "delete", status |-> r.status,
                           subscription_id |-> subscription_id, company_id |-> 0]
    /\ UNCHANGED <<sub_next_id, req, chunk_vars, service_vars>>

SubNext ==
    \/ \E subscription_in \in CreateInputs : CreateSubscription(subscription_in)
    \/ \E id \in SubIds, subscription_in \in UpdateInputs :
          UpdateSubscription(id, subscription_in)
    \/ \E id \in SubIds : DeleteSubscription(id)

SpecSub == Init /\ [][SubNext]_vars

\* concurrent create_subscription requests: the existence check and the insert
\* of a request are separate steps
RaceStart(r, subscription_in) ==
    /\ req[r].pc = "idle"
    /\ req' = [req EXCEPT ![r] = [pc |-> "check", status |-> 0,
                                  subscription_in |-> subscription_in]]
    /\ UNCHANGED <<subscriptions, sub_next_id, response, chunk_vars, service_vars>>

\* existing_subscription = crud.subscription.get_by_company_id(...)
RaceCheck(r) ==
    /\ req[r].pc = "check"
    /\ IF get_by_company_id(subscriptions, req[r].subscription_in.company_id) # {}
       THEN /\ req' = [req EXCEPT ![r].pc = "done", ![r].status = HTTP_400_BAD_REQUEST]
            /\ response' = [route |-> "create", status |-> HTTP_400_BAD_REQUEST,
                            subscription_id |-> 0,
                            company_id |-> req[r].subscription_in.company_id]
       ELSE /\ req' = [req EXCEPT ![r].pc = "insert"]
            /\ UNCHANGED response
    /\ UNCHANGED <<subscriptions, sub_next_id, chunk_vars, service_vars>>

\* subscription = crud.subscription.create(db=db, obj_in=subscription_in)
RaceInsert(r) ==
    /\ req[r].pc = "insert"
    /\ subscriptions' = crud_create(subscriptions, sub_next_id, req[r].subscription_in)
    /\ sub_next_id' = sub_next_id + 1
    /\ req' = [req EXCEPT ![r].pc = "done", ![r].status = HTTP_201_CREATED]
    /\ response' = [route |-> "create", status |-> HTTP_201_CREATED, subscription_id |-> 0,
                    company_id |-> req[r].subscription_in.company_id]
    /\ UNCHANGED <<chunk_vars, service_vars>>

RaceNext ==
    \/ \E r \in Requests, subscription_in \in CreateInputs : RaceStart(r, subscription_in)
    \/ \E r \in Requests : RaceCheck(r)
    \/ \E r \in Requests : RaceInsert(r)

SpecSubRace == Init /\ [][RaceNext]_vars

\* ---------------------------------------------------------------------------
\* Properties of the chunker
\* ---------------------------------------------------------------------------
SemanticOversized(batch) ==
    LET semantic == SemanticSplit(batch)
    IN  \E k \in 1..Len(semantic) : TooBig(semantic[k])

\* C1: when the semantic split of the batch holds a text node of more than
\* DEFAULT_CHUNK_SIZE tokens, _parse_nodes returns exactly the fixed-size
\* SentenceSplitter split of the input batch and no node of the semantic split.
C1_FallbackIsSentenceSplit ==
    (chunk_pc = "done" /\ SemanticOversized(nodes))
        => /\ all_nodes = SentenceSplit(nodes)
           /\ \A k \in 1..Len(all_nodes) : all_nodes[k].parser # "semantic"

\* ---------------------------------------------------------------------------
\* Properties of the service
\* ---------------------------------------------------------------------------
ListedIds(sc, nid) ==
    LET listed == list_ingested(sc, nid, -1).value
    IN  {listed[k].doc_id : k \in 1..Len(listed)}

\* C2: whenever no ingest_text / ingest_bin_data call is in flight, no
\* temporary file is left on disk: every such call has removed its temporary
\* file when it returns or raises.
C2_NoTempFileLeft ==
    pc = "idle" => (DOMAIN tmp_files = {} /\ ret.tmp \notin DOMAIN tmp_files)

C2_Witness_RaisedAfterTempFile ==
    /\ pc = "idle"
    /\ ret.op \in {"ingest_text", "ingest_bin_data"}
    /\ ret.tmp # 0
    /\ ret.status = "raise"
    /\ ret.exc = "DecodeError"

\* C3: a doc id that delete() has returned successfully for is, in every
\* later state, no key of get_all_ref_doc_info(), the doc_id of no entry of
\* list_ingested() and in no result of get_doc_ids_by_filename.
C3_DeletedStaysGone ==
    \A d \in deleted :
        /\ d \notin RefDocIds(storage_context)
        /\ d \notin ListedIds(storage_context, next_id)
        /\ \A f \in FileNames :
              d \notin get_doc_ids_by_filename(storage_context, next_id, f, -1).ids

C3_Witness_DeletedOneOfSeveral ==
    /\ ret.op = "delete"
    /\ ret.status = "ok"
    /\ ret.doc_id \in deleted
    /\ storage_context.docs # << >>

\* C4: delete(doc_id) of a doc id that is not in the document store raises
\* NotFoundError and leaves the stores unchanged; so does every delete of an
\* id that was deleted before.
StoredDocIds(sc) == {sc.ref_doc_info[k].doc_id : k \in 1..Len(sc.ref_doc_info)}

C4_DeleteAbsentRaises ==
    /\ \A d \in (DocIds \ StoredDocIds(storage_context)) \cup deleted :
          LET r == delete(storage_context, next_id, d)
          IN  /\ r.status = "raise"
              /\ r.exc = "NotFoundError"
              /\ r.sc = storage_context
    /\ (ret.op = "delete" /\ ret.status = "raise") => ret.exc = "NotFoundError"

C4_Witness_SecondDelete ==
    /\ ret.op = "delete"
    /\ ret.status = "raise"
    /\ ret.doc_id \in deleted

\* C5: every node of the document store has a ref_doc_id that is a document
\* id and a key of get_all_ref_doc_info(); get_doc_ids_by_filename returns only
\* ids that list_ingested lists.
C5_ReferentialIntegrity ==
    /\ \A k \in 1..Len(storage_context.docs) :
          /\ storage_context.docs[k].ref_doc_id \in DocIds
          /\ storage_context.docs[k].ref_doc_id \in RefDocIds(storage_context)
    /\ \A f \in FileNames :
          get_doc_ids_by_filename(storage_context, next_id, f, -1).ids
              \subseteq ListedIds(storage_context, next_id) \cap DocIds

C5_Witness_AfterIngestsAndDelete ==
    /\ pc = "idle"
    /\ deleted # {}
    /\ Len(storage_context.docs) >= 2
    /\ Len(storage_context.ref_doc_info) >= 2

\* C6: list_ingested returns normally with the entries built before the
\* store-state error, wherever the error is raised: nothing at the
\* get_all_ref_doc_info call, the first k-1 entries at the k-th entry.
ExpectedList(sc, n) ==
    LET ref_docs == get_all_ref_doc_info(sc)
    IN  [k \in 1..n |-> [object |-> "ingest.document", doc_id |-> ref_docs[k].doc_id,
                         doc_metadata |-> [file_name |-> ref_docs[k].metadata.file_name]]]

C6_ListNeverFails ==
    /\ \A fault \in -1..Len(get_all_ref_doc_info(storage_context)) :
          LET r == list_ingested(storage_context, next_id, fault)
              n == Len(get_all_ref_doc_info(storage_context))
          IN  /\ r.status = "ok"
              /\ r.value = ExpectedList(storage_context,
                                        IF fault = -1 THEN n
                                        ELSE IF fault = 0 THEN 0 ELSE fault - 1)
    /\ ret.op = "list_ingested" => ret.status = "ok"

C6_Witness_PartialList ==
    /\ ret.op = "list_ingested"
    /\ ret.fault >= 2
    /\ Len(ret.value) = ret.fault - 1
    /\ ret.status = "ok"

\* C7: without a store error get_doc_ids_by_filename(filename) returns exactly
\* the ref_doc_ids of the nodes whose metadata file_name is filename.
MatchingIds(sc, filename, upto) ==
    {sc.docs[k].ref_doc_id :
        k \in {j \in 1..upto : sc.docs[j].metadata.file_name = filename}}

C7_DocIdsByFilenameExact ==
    /\ \A f \in FileNames :
          LET r == get_doc_ids_by_filename(storage_context, next_id, f, -1)
          IN  /\ r.status = "ok"
              /\ r.ids = MatchingIds(storage_context, f, Len(storage_context.docs))
    /\ (ret.op = "get_doc_ids_by_filename" /\ ret.fault = -1 /\ pc = "idle")
          => ret.ids = MatchingIds(storage_context, ret.file_name,
                                   Len(storage_context.docs))

C7_Witness_MatchAmongOthers ==
    /\ ret.op = "get_doc_ids_by_filename"
    /\ ret.fault = -1
    /\ ret.ids # {}
    /\ \E k \in 1..Len(storage_context.docs) :
          storage_context.docs[k].metadata.file_name # ret.file_name

\* C8 (as stated): when a store-state error is raised during the scan, at the
\* access to the document store or at any node, get_doc_ids_by_filename
\* returns the empty set and does not propagate the error.
C8_EmptyOnStoreError ==
    \A f \in FileNames, fault \in 0..Len(storage_context.docs) :
        LET r == get_doc_ids_by_filename(storage_context, next_id, f, fault)
        IN  r.status = "ok" /\ r.ids = {}

\* C8 (amended): when a store-state error is raised during the scan,
\* get_doc_ids_by_filename does not propagate it and returns the ids collected
\* from the nodes scanned before the error: the empty set when the error is
\* raised at the access to the document store.
C8_CollectedBeforeStoreError ==
    \A f \in FileNames, fault \in 0..Len(storage_context.docs) :
        LET r == get_doc_ids_by_filename(storage_context, next_id, f, fault)
        IN  /\ r.status = "ok"
            /\ r.ids = MatchingIds(storage_context, f,
                                   IF fault = 0 THEN 0 ELSE fault - 1)

C8_Witness_ErrorAfterMatch ==
    /\ ret.op = "get_doc_ids_by_filename"
    /\ ret.fault >= 2
    /\ ret.status = "ok"
    /\ ret.ids # {}

\* C9: from every store state, bulk_ingest of two decodable files returns the
\* list that ingest_file of the first followed by ingest_file of the second
\* return, in the same order, and leaves the same store.
GoodFiles == {<<f, PathContent[p]>> : f \in FileNames,
                                      p \in {q \in Paths : PathContent[q].decodable}}

C9_BulkEqualsSequential ==
    \A a \in GoodFiles, b \in GoodFiles :
        LET bulk == bulk_ingest(storage_context, next_id, <<a, b>>)
            one == ingest_file(storage_context, next_id, a[1], a[2])
            two == ingest_file(one.sc, one.next_id, b[1], b[2])
        IN  /\ bulk.status = "ok" /\ one.status = "ok" /\ two.status = "ok"
            /\ bulk.value = one.value \o two.value
            /\ bulk.sc = two.sc
            /\ bulk.next_id = two.next_id

C9_Witness_BulkOfTwoFiles ==
    /\ ret.op = "bulk_ingest"
    /\ ret.status = "ok"
    /\ Len(ret.value) >= 3
    /\ ret.value[1].doc_metadata.file_name # ret.value[Len(ret.value)].doc_metadata.file_name

\* C10: a POST /v1/ingest request with a readable, decodable file is handed
\* to an ingestion operation of the service and answered with the document
\* ids of the ingested documents.
C10_UploadReturnsDocumentIds ==
    [][\A f \in FileNames, raw \in Streams :
          (PostIngest(f, raw) /\ raw.readable /\ raw.data.decodable)
              => /\ ret'.status = "ok"
                 /\ Len(ret'.value) = Len(raw.data.parts)
                 /\ storage_context' # storage_context]_vars

\* C11 (as stated): the ids an ingest operation has just returned are each the
\* doc_id of exactly one entry of the list_ingested() result that follows.
EntriesOf(value, d) == {k \in 1..Len(value) : value[k].doc_id = d}

IngestOps == {"ingest_file", "ingest_text", "ingest_bin_data"}

C11_IngestedAlwaysListed ==
    [][(/\ ret.op \in IngestOps
        /\ ret.status = "ok"
        /\ ret'.op = "list_ingested")
          => \A d \in ReturnedIds(ret) : Cardinality(EntriesOf(ret'.value, d)) = 1]_vars

\* C11 (amended): every id that an ingest operation has returned and that no
\* delete has succeeded for is the doc_id of exactly one entry of every later
\* list_ingested() result that no store-state error has cut short: the ids a
\* successful ingest returns are in the docstore, an id leaves the docstore only
\* by a successful delete of it, and a list_ingested() result that no store
\* error has cut short has exactly one entry for every id of the docstore.
C11_IngestedListedWithoutStoreError ==
    /\ [](/\ \A d \in RefDocIds(storage_context) :
               Cardinality(EntriesOf(list_ingested(storage_context, next_id, -1).value,
                                     d)) = 1
          /\ (ret.op = "list_ingested" /\ ret.fault = -1 /\ pc = "idle")
               => \A d \in RefDocIds(storage_context) :
                     Cardinality(EntriesOf(ret.value, d)) = 1)
    /\ [][(ret'.op \in IngestOps \cup {"bulk_ingest"} /\ ret'.status = "ok"
              /\ ret' # ret)
            => ReturnedIds(ret') \subseteq RefDocIds(storage_context')]_vars
    /\ [][\A d \in RefDocIds(storage_context) \ RefDocIds(storage_context') :
            ret'.op = "delete" /\ ret'.status = "ok" /\ ret'.doc_id = d]_vars

C11_Witness_ListedAfterIngestAndDelete ==
    /\ ret.op = "list_ingested"
    /\ ret.fault = -1
    /\ Cardinality(RefDocIds(storage_context)) >= 2
    /\ deleted # {}
    /\ Len(ret.value) >= 2

\* C12: when the Ingestion Component raises during ingest_file, bulk_ingest,
\* delete or the ingest_file call of ingest_text / ingest_bin_data, the service
\* call raises that error and returns no list.
SameError(r, c) == r.status = "raise" /\ r.exc = c.exc /\ r.value = << >>

C12_ComponentErrorsReachCaller ==
    /\ [](pc = "idle"
            => /\ \A f \in FileNames, p \in Paths :
                     LET c == component_ingest(storage_context, next_id, f,
                                               PathContent[p])
                     IN  c.status = "raise"
                            => SameError(ingest_file(storage_context, next_id, f,
                                                     PathContent[p]), c)
               /\ \A files \in BulkInputs :
                     Fits(next_id, CountDocs(files))
                        => LET c == component_bulk_ingest(storage_context, next_id,
                                                          files)
                           IN  c.status = "raise"
                                  => SameError(bulk_ingest(storage_context, next_id,
                                                           files), c)
               /\ \A d \in DocIds :
                     LET c == component_delete(storage_context, next_id, d)
                     IN  c.status = "raise"
                            => SameError(delete(storage_context, next_id, d), c))
    /\ [][(pc = "ingest" /\ pc' = "finally"
             /\ ~tmp_files[call.tmp].decodable)
              => call'.exc = "DecodeError"]_vars
    /\ [][(pc = "finally" /\ pc' = "idle" /\ call.exc # NoExc)
              => /\ ret'.status = "raise"
                 /\ ret'.exc = call.exc
                 /\ ret'.value = << >>]_vars

C12_Witness_BulkRaisedAfterFirstFile ==
    /\ ret.op = "bulk_ingest"
    /\ ret.status = "raise"
    /\ ret.exc = "DecodeError"
    /\ ~storage_context.persisted

\* C13: every text node of the list _parse_nodes returns has at most
\* DEFAULT_CHUNK_SIZE tokens.
C13_ChunkSizeBounded ==
    chunk_pc = "done"
        => \A k \in 1..Len(all_nodes) :
              all_nodes[k].kind = "TEXT" => all_nodes[k].tokens <= DEFAULT_CHUNK_SIZE

\* C14: when no text node of the semantic split exceeds DEFAULT_CHUNK_SIZE,
\* _parse_nodes returns the semantic split unchanged and no node of the
\* fixed-size splitter; nodes that are not text nodes are not measured.
C14_NoSpuriousFallback ==
    (chunk_pc = "done" /\ ~SemanticOversized(nodes))
        => /\ all_nodes = SemanticSplit(nodes)
           /\ \A k \in 1..Len(all_nodes) : all_nodes[k].parser = "semantic"

C14_Witness_LargeNonTextNode ==
    /\ chunk_pc = "done"
    /\ ~SemanticOversized(nodes)
    /\ \E k \in 1..Len(all_nodes) :
          all_nodes[k].kind = "IMAGE" /\ all_nodes[k].tokens > DEFAULT_CHUNK_SIZE
    /\ \E k \in 1..Len(all_nodes) : all_nodes[k].kind = "TEXT"

\* C15: every node written to the Storage Context went through the node
\* parser and then the embedding model: each stored node has its embedding
\* and its vector-store and index-store entries.
C15_StoredNodesAreEmbedded ==
    \A k \in 1..Len(storage_context.docs) :
        /\ storage_context.docs[k].embedding
        /\ "node_id" \in DOMAIN storage_context.docs[k]
        /\ storage_context.docs[k].node_id \in storage_context.vector_store
        /\ storage_context.docs[k].node_id \in storage_context.index_store

C15_Witness_NodesOfTwoDocuments ==
    /\ Len(storage_context.docs) >= 3
    /\ storage_context.docs[1].ref_doc_id # storage_context.docs[3].ref_doc_id
    /\ storage_context.persisted


\* ---------------------------------------------------------------------------
\* Properties of the subscription routes
\* ---------------------------------------------------------------------------
UniquePerCompany(db) ==
    \A c \in Companies : Cardinality(get_by_company_id(db, c)) <= 1

\* C16: with the requests handled one at a time, no company_id ever has more
\* than one subscription, and a create_subscription for a company that already
\* has a subscription answers 400 and leaves the table as it is.
C16_OneSubscriptionPerCompany ==
    /\ UniquePerCompany(subscriptions)
    /\ \A subscription_in \in CreateInputs :
          get_by_company_id(subscriptions, subscription_in.company_id) # {}
              => LET r == create_subscription(subscriptions, sub_next_id, subscription_in)
                 IN  r.status = HTTP_400_BAD_REQUEST /\ r.db = subscriptions
    /\ (response.route = "create" /\ response.status = HTTP_400_BAD_REQUEST)
          => get_by_company_id(subscriptions, response.company_id) # {}

C16_Witness_SecondCreateRejected ==
    /\ response.route = "create"
    /\ response.status = HTTP_400_BAD_REQUEST
    /\ Cardinality(subscriptions) = 2
    /\ sub_next_id = 3

\* C17: of two concurrent create_subscription requests for one company_id, whose
\* existence check and insert are separate steps, at most one creates a
\* subscription, and the company never has two subscriptions.
C17_AtMostOneCreates ==
    /\ \A r1, r2 \in Requests :
          (/\ r1 # r2
           /\ req[r1].pc = "done" /\ req[r2].pc = "done"
           /\ req[r1].subscription_in.company_id = req[r2].subscription_in.company_id)
              => ~(   req[r1].status = HTTP_201_CREATED
                   /\ req[r2].status = HTTP_201_CREATED)
    /\ \A c \in Companies : Cardinality(get_by_company_id(subscriptions, c)) < 2

\* C18: update_subscription answers 403 for an inactive subscription and 404
\* for a missing id, changing nothing in either case; so no update request
\* changes or removes a subscription that is inactive.
C18_InactiveFrozen ==
    /\ [](\A id \in SubIds, subscription_in \in UpdateInputs :
            LET r == update_subscription(subscriptions, sub_next_id, id, subscription_in)
                subscription == get_by_id(subscriptions, id)
            IN  /\ subscription = {}
                      => r.status = HTTP_404_NOT_FOUND /\ r.db = subscriptions
                /\ (subscription # {} /\ \A row \in subscription : ~row.is_active)
                      => r.status = HTTP_403_FORBIDDEN /\ r.db = subscriptions)
    /\ [][(\E id \in SubIds, subscription_in \in UpdateInputs :
              UpdateSubscription(id, subscription_in))
            => \A row \in subscriptions : ~row.is_active => row \in subscriptions']_vars

C18_Witness_UpdateOfInactiveRefused ==
    /\ response.route = "update"
    /\ response.status = HTTP_403_FORBIDDEN
    /\ \E row \in subscriptions : row.id = response.subscription_id /\ ~row.is_active
    /\ \E row \in subscriptions : row.is_active

====
